---------------------------- MODULE Spec2Model ----------------------------
(***************************************************************************)
(* Model of the benchmark comparison engine (comparison.cjs):              *)
(*   getStatusEmoji, findBenchmarkPairs, generateContractComparisonTable   *)
(*   and runComparison.                                                    *)
(*                                                                         *)
(* Strings whose characters matter (file names, suffixes, contract names,  *)
(* function names) are sequences of one-character strings; fixed output    *)
(* texts are TLA+ strings.  JSON numbers are integers; a fractional change *)
(* (pr - main) / main is kept as an exact fraction and compared by         *)
(* cross-multiplication.                                                   *)
(***************************************************************************)
EXTENDS Integers, Sequences, FiniteSets, TLC

VARIABLES
    pc,             \* position of the modelled call
    metrics,        \* getStatusEmoji: the metrics argument
    threshold,      \* the threshold argument / inputs.threshold
    statusEmoji,    \* getStatusEmoji: the returned emoji
    mainData,       \* generateContractComparisonTable: content of the base file
    prData,         \* generateContractComparisonTable: content of the PR file
    tableMarkdown,  \* generateContractComparisonTable: what the call produced
    dirState,       \* the reports directory: "ok", or the error readdirSync throws
    dirFiles,       \* the entries of the reports directory: name -> content
    benchmarkPairs, \* runComparison: the pairs, sorted
    markdownOutput, \* runComparison: the parts of the document so far
    pairIndex,      \* runComparison: the pair the loop is at
    returned,       \* the documents the finished runs returned
    diffMain,       \* formatDiff: the main argument
    diffPr,         \* formatDiff: the pr argument
    diffText,       \* formatDiff: the returned string
    extractInput,   \* metric extraction: the result record (or its absence)
    extracted,      \* metric extraction: the three values read from it
    thresholdInput, \* Action: the string core.getInput('threshold') returns
    parsedThreshold,\* Action: what parseFloat made of it
    execOutcome,    \* Action: what running the benchmark CLI will come to
    writeOutcome,   \* Action: what writing the report file will come to
    actionLog,      \* Action: the calls made so far, in their order
    outputs,        \* Action: the outputs set, name -> value
    reportFile,     \* Action: the content of the file at the output path
    fsToProfile,    \* Profiler.profile: the interactions to profile
    profiled,       \* Profiler.profile: the results pushed so far
    profileIndex,   \* Profiler.profile: the interaction the loop is at
    contractsToRun, \* CLI: the benchmarks of the contracts to run, in order
    contractIndex,  \* CLI: the contract the loop is at
    runContext,     \* CLI: what setup returned for the contract the loop is at
    cliLog,         \* CLI: the calls made so far, <<contract, call, argument>>
    outputDir       \* CLI: the report files of the output directory

emojiVars == <<metrics, statusEmoji>>
tableVars == <<mainData, prData, tableMarkdown>>
runVars == <<dirState, dirFiles, benchmarkPairs, markdownOutput, pairIndex, returned>>
diffVars == <<diffMain, diffPr, diffText>>
extractVars == <<extractInput, extracted>>

\* the variables of the comparison engine, and those of the code around it
engineVars == <<threshold, emojiVars, tableVars, runVars>>
actionVars == <<thresholdInput, parsedThreshold, execOutcome, writeOutcome, actionLog,
                outputs, reportFile>>
profilerVars == <<fsToProfile, profiled, profileIndex>>
cliVars == <<contractsToRun, contractIndex, runContext, cliLog, outputDir>>
peripheralVars == <<diffVars, extractVars, actionVars, profilerVars, cliVars>>

vars == <<pc, engineVars, peripheralVars>>

-----------------------------------------------------------------------------
(* Bounds of the model *)

\* metric values range over 0..MaxMetric
MaxMetric == 3

\* the two reports of a compared pair hold at most MaxResults entries together
MaxResults == 3

\* the reports directory holds at most MaxFiles entries
MaxFiles == 4

\* the comparison is run at most MaxRuns times on the same directory
MaxRuns == 2

\* Profiler.profile is given at most MaxInteractions interactions
MaxInteractions == 2

\* the CLI runs the benchmarks of at most MaxContracts contracts
MaxContracts == 2

-----------------------------------------------------------------------------
(* Strings: sequences of one-character strings, compared by UTF-16 code unit *)

\* the printable ASCII characters in code order, from code 32 (the quotation
\* mark, the backslash and the grave accent, which no modelled string holds,
\* by their names)
Ascii ==
    <<" ", "!", "QUOTATION MARK", "#", "$", "%", "&", "'", "(", ")", "*", "+", ",", "-", ".", "/",
      "0", "1", "2", "3", "4", "5", "6", "7", "8", "9", ":", ";", "<", "=", ">", "?",
      "@", "A", "B", "C", "D", "E", "F", "G", "H", "I", "J", "K", "L", "M", "N", "O",
      "P", "Q", "R", "S", "T", "U", "V", "W", "X", "Y", "Z", "[", "REVERSE SOLIDUS", "]", "^", "_",
      "GRAVE ACCENT", "a", "b", "c", "d", "e", "f", "g", "h", "i", "j", "k", "l", "m", "n", "o",
      "p", "q", "r", "s", "t", "u", "v", "w", "x", "y", "z", "{", "|", "}", "~">>

\* two characters outside ASCII: e with acute accent (U+00E9), and the
\* combining acute accent (U+0301)
EAcute == "U+00E9"
CombiningAcute == "U+0301"

\* the UTF-16 code unit of a character
CodeUnit(c) ==
    IF c = EAcute THEN 233
    ELSE IF c = CombiningAcute THEN 769
    ELSE 31 + (CHOOSE i \in 1..Len(Ascii) : Ascii[i] = c)

\* String.prototype.startsWith
StartsWith(s, prefix) ==
    /\ Len(prefix) <= Len(s)
    /\ SubSeq(s, 1, Len(prefix)) = prefix

\* String.prototype.endsWith
EndsWith(s, suffix) ==
    /\ Len(suffix) <= Len(s)
    /\ SubSeq(s, Len(s) - Len(suffix) + 1, Len(s)) = suffix

\* String.prototype.includes
Includes(s, part) ==
    \E i \in 1..(Len(s) - Len(part) + 1) : SubSeq(s, i, i + Len(part) - 1) = part

\* s sorts before t in the order of Array.prototype.sort without a comparator
\* (the first differing code unit decides; a proper prefix comes first)
CodeUnitLess(s, t) ==
    \/ \E i \in 1..Len(s) :
        /\ i <= Len(t)
        /\ SubSeq(s, 1, i - 1) = SubSeq(t, 1, i - 1)
        /\ CodeUnit(s[i]) < CodeUnit(t[i])
    \/ Len(s) < Len(t) /\ SubSeq(t, 1, Len(s)) = s

RECURSIVE SortStrings(_)
\* the strings of the set S in ascending code unit order
SortStrings(S) ==
    IF S = {} THEN <<>>
    ELSE LET least == CHOOSE x \in S : \A y \in S \ {x} : CodeUnitLess(x, y)
         IN <<least>> \o SortStrings(S \ {least})

RECURSIVE Digits(_)
\* the decimal digits of a natural number
Digits(n) ==
    IF n < 10 THEN <<Ascii[17 + n]>>
    ELSE Digits(n \div 10) \o <<Ascii[17 + (n % 10)]>>

RECURSIVE GroupThousands(_)
\* a digit string with a comma before every group of three digits
GroupThousands(ds) ==
    IF Len(ds) <= 3 THEN ds
    ELSE GroupThousands(SubSeq(ds, 1, Len(ds) - 3)) \o <<",">>
            \o SubSeq(ds, Len(ds) - 2, Len(ds))

\* Number.prototype.toLocaleString of an integer (en-US)
toLocaleString(n) ==
    IF n < 0 THEN <<"-">> \o GroupThousands(Digits(-n))
    ELSE GroupThousands(Digits(n))

IsDigit(c) == c \in {"0", "1", "2", "3", "4", "5", "6", "7", "8", "9"}

DigitValue(c) == CHOOSE v \in 0..9 : Ascii[17 + v] = c

RECURSIVE DigitsValue(_)
\* the number a string of digits and commas writes
DigitsValue(ds) ==
    IF ds = <<>> THEN 0
    ELSE IF ds[Len(ds)] = "," THEN DigitsValue(SubSeq(ds, 1, Len(ds) - 1))
    ELSE 10 * DigitsValue(SubSeq(ds, 1, Len(ds) - 1)) + DigitValue(ds[Len(ds)])

Abs(n) == IF n < 0 THEN -n ELSE n

\* Number.prototype.toFixed(1) of the fraction num / den * 100: the nearest
\* tenth, the larger one in magnitude on a tie; a negative value keeps its "-"
toFixed1Pct(num, den) ==
    LET negative == (num < 0) # (den < 0)
        tenths == (2 * Abs(num) * 1000 + Abs(den)) \div (2 * Abs(den))
    IN (IF negative THEN <<"-">> ELSE <<>>)
        \o Digits(tenths \div 10) \o <<".">> \o Digits(tenths % 10)

-----------------------------------------------------------------------------
(* formatDiff *)

\* a JSON number that need not be whole: n / d with d > 0
Rat(n, d) == [n |-> n, d |-> d]

RECURSIVE StripZeros(_)
\* a digit string without its trailing zeros
StripZeros(ds) ==
    IF ds # <<>> /\ ds[Len(ds)] = "0" THEN StripZeros(SubSeq(ds, 1, Len(ds) - 1)) ELSE ds

\* Number.prototype.toLocaleString (en-US) of n / d: grouped integer digits
\* and at most three fraction digits, the nearest thousandth (on a tie the
\* larger one in magnitude)
toLocaleStringOf(n, d) ==
    LET thousandths == (2 * Abs(n) * 1000 + d) \div (2 * d)
        fraction == StripZeros(<<Ascii[17 + ((thousandths % 1000) \div 100)],
                                 Ascii[17 + ((thousandths % 100) \div 10)],
                                 Ascii[17 + (thousandths % 10)]>>)
    IN (IF n < 0 THEN <<"-">> ELSE <<>>)
        \o GroupThousands(Digits(thousandths \div 1000))
        \o (IF fraction = <<>> THEN <<>> ELSE <<".">> \o fraction)

InfText == <<"+", "I", "n", "f", "%">>
Minus100Text == <<"-", "1", "0", "0", "%">>

formatDiffOfNoZeroCandidate(main, pr) ==
    IF main.n = 0 /\ pr.n = 0 THEN <<>>
    ELSE IF main.n = 0 THEN InfText
    ELSE LET diffN == pr.n * main.d - main.n * pr.d
             diffD == main.d * pr.d
             pctN == diffN * main.d
             pctD == diffD * main.n
             sign == IF diffN > 0 THEN <<"+">> ELSE <<>>
         IN IF diffN = 0 THEN <<>>
            ELSE IF Abs(pctN) * 10000 < Abs(pctD) /\ Abs(diffN) < diffD THEN <<>>
            ELSE sign \o toLocaleStringOf(diffN, diffD) \o <<" ", "(">> \o sign
                    \o toFixed1Pct(pctN, pctD) \o <<"%", ")">>

\* formatDiff for numbers main and pr; diff is diffN / diffD and pct is
\* 100 * pctN / pctD
formatDiffOf(main, pr) ==
    IF main.n = 0 /\ pr.n = 0 THEN <<>>
    ELSE IF main.n = 0 THEN InfText
    ELSE IF pr.n = 0 THEN Minus100Text
    ELSE LET diffN == pr.n * main.d - main.n * pr.d
             diffD == main.d * pr.d
             pctN == diffN * main.d
             pctD == diffD * main.n
             sign == IF diffN > 0 THEN <<"+">> ELSE <<>>
         IN IF diffN = 0 THEN <<>>
            ELSE IF Abs(pctN) * 10000 < Abs(pctD) /\ Abs(diffN) < diffD THEN <<>>
            ELSE sign \o toLocaleStringOf(diffN, diffD) \o <<" ", "(">> \o sign
                    \o toFixed1Pct(pctN, pctD) \o <<"%", ")">>

\* formatDiff for whole numbers, as the rows of the table call it
formatDiff(main, pr) == formatDiffOf(Rat(main, 1), Rat(pr, 1))

-----------------------------------------------------------------------------
(* getStatusEmoji *)

\* the five emoji of getStatusEmoji: U+1F6AE, U+1F195, U+1F534, U+1F7E2, U+26AA
EmojiRemoved == "removed"
EmojiNew == "new"
EmojiRegression == "regression"
EmojiImprovement == "improvement"
EmojiUnchanged == "unchanged"

\* one of gateDiffPct, daGasDiffPct, l2GasDiffPct: Infinity, 0, or the
\* fraction (pr - main) / main
DiffPct(m) ==
    IF m.main = 0
    THEN (IF m.pr > 0 THEN [inf |-> TRUE, num |-> 0, den |-> 1]
                      ELSE [inf |-> FALSE, num |-> 0, den |-> 1])
    ELSE [inf |-> FALSE, num |-> m.pr - m.main, den |-> m.main]

\* d > t / 100.0 for a finite d = num / den
GtThreshold(d, t) ==
    IF d.den > 0 THEN d.num * 100 > t * d.den ELSE d.num * 100 < t * d.den

\* d < -(t / 100.0) for a finite d = num / den
LtNegThreshold(d, t) ==
    IF d.den > 0 THEN d.num * 100 < (-t) * d.den ELSE d.num * 100 > (-t) * d.den

isRemovedGatesOnly(m) ==
    /\ m.gates.pr = 0
    /\ (m.gates.main > 0 \/ m.daGas.main > 0 \/ m.l2Gas.main > 0)

isRemoved(m) ==
    /\ m.gates.pr = 0 /\ m.daGas.pr = 0 /\ m.l2Gas.pr = 0
    /\ (m.gates.main > 0 \/ m.daGas.main > 0 \/ m.l2Gas.main > 0)

isNewAnyBaseZero(m) ==
    /\ (m.gates.main = 0 \/ m.daGas.main = 0 \/ m.l2Gas.main = 0)
    /\ (m.gates.pr > 0 \/ m.daGas.pr > 0 \/ m.l2Gas.pr > 0)

isNew(m) ==
    /\ m.gates.main = 0 /\ m.daGas.main = 0 /\ m.l2Gas.main = 0
    /\ (m.gates.pr > 0 \/ m.daGas.pr > 0 \/ m.l2Gas.pr > 0)

AllDiffs(m) == <<DiffPct(m.gates), DiffPct(m.daGas), DiffPct(m.l2Gas)>>

\* metricsDiffs: the finite ones among the three
metricsDiffs(m) == SelectSeq(AllDiffs(m), LAMBDA d : ~d.inf)

hasInfiniteIncrease(m) == \E i \in 1..3 : AllDiffs(m)[i].inf

hasRegressionNoInfinite(m, t) ==
    \E i \in 1..Len(metricsDiffs(m)) : GtThreshold(metricsDiffs(m)[i], t)

hasRegression(m, t) ==
    \/ hasInfiniteIncrease(m)
    \/ \E i \in 1..Len(metricsDiffs(m)) : GtThreshold(metricsDiffs(m)[i], t)

hasImprovementInclusive(m, t) ==
    \E i \in 1..Len(metricsDiffs(m)) :
        metricsDiffs(m)[i].num * 100 <= (-t) * metricsDiffs(m)[i].den

hasImprovement(m, t) ==
    \E i \in 1..Len(metricsDiffs(m)) : LtNegThreshold(metricsDiffs(m)[i], t)

getStatusEmojiImprovementFirst(m, t) ==
    IF isRemoved(m) THEN EmojiRemoved
    ELSE IF isNew(m) THEN EmojiNew
    ELSE IF hasImprovement(m, t) THEN EmojiImprovement
    ELSE IF hasRegression(m, t) THEN EmojiRegression
    ELSE EmojiUnchanged

getStatusEmoji(m, t) ==
    IF isRemoved(m) THEN EmojiRemoved
    ELSE IF isNew(m) THEN EmojiNew
    ELSE IF hasRegression(m, t) THEN EmojiRegression
    ELSE IF hasImprovement(m, t) THEN EmojiImprovement
    ELSE EmojiUnchanged

-----------------------------------------------------------------------------
(* JSON values read from the report files *)

\* a scalar field of a result: absent, or a number
Undefined == [t |-> "undefined", n |-> 0]
Num(n) == [t |-> "number", n |-> n]

\* the name field of a result: a string, absent, or a number other than 0
StrName(s) == [t |-> "string", s |-> s]
NoName == [t |-> "undefined", s |-> <<>>]
NumberName == [t |-> "number", s |-> <<>>]

\* the gas field of a result: absent, without gasLimits, or with both limits
NoGasLimits == [t |-> "undefined", daGas |-> Undefined, l2Gas |-> Undefined]
NoGas == [t |-> "undefined", gasLimits |-> NoGasLimits]
EmptyGas == [t |-> "object", gasLimits |-> NoGasLimits]
Gas(da, l2) ==
    [t |-> "object", gasLimits |-> [t |-> "object", daGas |-> da, l2Gas |-> l2]]

\* an element of results: an object, or null
Result(name, gates, gas) ==
    [t |-> "object", name |-> name, totalGateCount |-> gates, gas |-> gas]
NullResult == [t |-> "null", name |-> NoName, totalGateCount |-> Undefined, gas |-> NoGas]
\* what Array.prototype.find returns when no element matches
NoResult == [t |-> "undefined", name |-> NoName, totalGateCount |-> Undefined, gas |-> NoGas]

\* the results field of a document: absent, a number other than 0, or an array
NoResults == [t |-> "undefined", items |-> <<>>]
NumberResults == [t |-> "number", items |-> <<>>]
ArrayResults(items) == [t |-> "array", items |-> items]

\* a report file: missing, not parseable as JSON, the JSON document null, or
\* a JSON object
NoFile == [t |-> "missing", results |-> NoResults]
UnparseableFile == [t |-> "unparseable", results |-> NoResults]
NullFile == [t |-> "null", results |-> NoResults]
ObjectFile(results) == [t |-> "object", results |-> results]

\* a scalar field that is null, and a gas or gasLimits field that is null
Null == [t |-> "null", n |-> 0]
NullGasLimits == [t |-> "null", daGas |-> Undefined, l2Gas |-> Undefined]
NullGas == [t |-> "null", gasLimits |-> NoGasLimits]
GasWithNullLimits == [t |-> "object", gasLimits |-> NullGasLimits]

\* v ?? 0
OrZero(v) == IF v.t \in {"undefined", "null"} THEN 0 ELSE v.n

-----------------------------------------------------------------------------
(* Metric extraction *)

getDaGasNoDefault(result) ==
    IF result.t = "object" /\ result.gas.t = "object"
    THEN result.gas.gasLimits.daGas.n
    ELSE 0

\* result?.gas?.gasLimits?.daGas ?? 0
getDaGas(result) ==
    IF result.t = "object" /\ result.gas.t = "object"
        /\ result.gas.gasLimits.t = "object"
    THEN OrZero(result.gas.gasLimits.daGas)
    ELSE 0

\* result?.gas?.gasLimits?.l2Gas ?? 0
getL2Gas(result) ==
    IF result.t = "object" /\ result.gas.t = "object"
        /\ result.gas.gasLimits.t = "object"
    THEN OrZero(result.gas.gasLimits.l2Gas)
    ELSE 0

\* result?.totalGateCount ?? 0
getGates(result) ==
    IF result.t = "object" THEN OrZero(result.totalGateCount) ELSE 0

-----------------------------------------------------------------------------
(* generateContractComparisonTable *)

UnknownFunctionPrefix == <<"u", "n", "k", "n", "o", "w", "n", "_", "f", "u", "n", "c", "t", "i", "o", "n">>
FailedMarker == <<"(", "F", "A", "I", "L", "E", "D", ")">>
RunnerErrorName == <<"B", "E", "N", "C", "H", "M", "A", "R", "K", "_", "R", "U", "N", "N", "E", "R", "_", "E", "R", "R", "O", "R">>
\* the key whose assignment on a plain object sets the prototype instead of
\* adding a property
ProtoKey == <<"_", "_", "p", "r", "o", "t", "o", "_", "_">>

isExcludedContainsUnknown(name) ==
    \/ name.t = "undefined"
    \/ /\ name.t = "string"
       /\ \/ name.s = <<>>
          \/ Includes(name.s, UnknownFunctionPrefix)
          \/ Includes(name.s, FailedMarker)
          \/ name.s = RunnerErrorName

isExcludedNoFailedMarker(name) ==
    \/ name.t = "undefined"
    \/ /\ name.t = "string"
       /\ \/ name.s = <<>>
          \/ StartsWith(name.s, UnknownFunctionPrefix)
          \/ name.s = RunnerErrorName

\* !name || name.startsWith('unknown_function') || name.includes('(FAILED)')
\*       || name === 'BENCHMARK_RUNNER_ERROR', for a name with these methods
isExcluded(name) ==
    \/ name.t = "undefined"
    \/ /\ name.t = "string"
       /\ \/ name.s = <<>>
          \/ StartsWith(name.s, UnknownFunctionPrefix)
          \/ Includes(name.s, FailedMarker)
          \/ name.s = RunnerErrorName

\* the names of results.map(r => r.name)
NamesOf(results) == {results.items[i].name : i \in 1..Len(results.items)}

\* allFunctionNames
allFunctionNames(main, pr) == NamesOf(main.results) \cup NamesOf(pr.results)

\* the evaluation throws a TypeError: results is no array (no map method), an
\* element of results is null (r.name), or a name that is not skipped is no
\* string (no startsWith method)
Throws(main, pr) ==
    \/ main.results.t # "array"
    \/ pr.results.t # "array"
    \/ \E i \in 1..Len(main.results.items) : main.results.items[i].t = "null"
    \/ \E i \in 1..Len(pr.results.items) : pr.results.items[i].t = "null"
    \/ \E name \in allFunctionNames(main, pr) : name.t = "number"

findLast(results, s) ==
    IF \E i \in 1..Len(results.items) : results.items[i].name = StrName(s)
    THEN results.items[CHOOSE i \in 1..Len(results.items) :
            /\ results.items[i].name = StrName(s)
            /\ \A j \in (i + 1)..Len(results.items) : results.items[j].name # StrName(s)]
    ELSE NoResult

\* results.find((r) => r.name === name)
find(results, s) ==
    IF \E i \in 1..Len(results.items) : results.items[i].name = StrName(s)
    THEN results.items[CHOOSE i \in 1..Len(results.items) :
            /\ results.items[i].name = StrName(s)
            /\ \A j \in 1..(i - 1) : results.items[j].name # StrName(s)]
    ELSE NoResult

\* the value assigned to comparison[name]
comparisonEntry(main, pr, s) ==
    LET mainResult == find(main.results, s)
        prResult == find(pr.results, s)
    IN [gates |-> [main |-> getGates(mainResult), pr |-> getGates(prResult)],
        daGas |-> [main |-> getDaGas(mainResult), pr |-> getDaGas(prResult)],
        l2Gas |-> [main |-> getL2Gas(mainResult), pr |-> getL2Gas(prResult)]]

\* the names for which comparison[name] is assigned
comparedNames(main, pr) ==
    {name.s : name \in {n \in allFunctionNames(main, pr) : ~isExcluded(n)}}

\* Object.keys(comparison): the assigned names that became own properties of
\* the object literal
comparisonKeys(main, pr) == comparedNames(main, pr) \ {ProtoKey}

RECURSIVE FirstOccurrences(_, _)
\* the strings of seq that are in keys, each at its first place
FirstOccurrences(seq, keys) ==
    IF seq = <<>> THEN <<>>
    ELSE LET rest == FirstOccurrences(SubSeq(seq, 1, Len(seq) - 1), keys)
             last == seq[Len(seq)]
         IN IF last \in keys /\ \A i \in 1..Len(rest) : rest[i] # last
            THEN Append(rest, last) ELSE rest

\* Object.keys(comparison) left in insertion order
sortedNamesInsertionOrder(main, pr) ==
    FirstOccurrences(
        [i \in 1..Len(main.results.items) |-> main.results.items[i].name.s]
            \o [i \in 1..Len(pr.results.items) |-> pr.results.items[i].name.s],
        comparisonKeys(main, pr))

\* Object.keys(comparison).sort()
sortedNames(main, pr) == SortStrings(comparisonKeys(main, pr))

\* the three cells of one metric in a row
Cells(m) ==
    [main |-> toLocaleString(m.main), pr |-> toLocaleString(m.pr),
     diff |-> formatDiff(m.main, m.pr)]

\* the <tr> pushed for funcName
Row(main, pr, funcName, t) ==
    LET m == comparisonEntry(main, pr, funcName)
    IN [statusEmoji |-> getStatusEmoji(m, t), funcName |-> funcName,
        gates |-> Cells(m.gates), daGas |-> Cells(m.daGas), l2Gas |-> Cells(m.l2Gas)]

\* what a call produces: one of the four placeholder texts (two of them name
\* the contract), the table (its fixed header and footer around the rows), or
\* a thrown TypeError
Produced(kind, contractName, rows) ==
    [kind |-> kind, contractName |-> contractName, rows |-> rows]

NoTable == Produced("none", <<>>, <<>>)

generateContractComparisonTable(contractName, main, pr, t) ==
    IF main.t = "missing" \/ pr.t = "missing"
    THEN Produced("error_missing", contractName, <<>>)
    ELSE IF main.t = "unparseable" \/ pr.t = "unparseable"
    THEN Produced("error_parsing", contractName, <<>>)
    ELSE IF main.t = "null" \/ main.results.t = "undefined"
            \/ pr.t = "null" \/ pr.results.t = "undefined"
    THEN Produced("skipping", contractName, <<>>)
    ELSE IF Throws(main, pr)
    THEN Produced("throw", <<>>, <<>>)
    ELSE IF sortedNames(main, pr) = <<>>
    THEN Produced("no_functions", <<>>, <<>>)
    ELSE Produced("table", <<>>,
            [i \in 1..Len(sortedNames(main, pr)) |->
                Row(main, pr, sortedNames(main, pr)[i], t)])

-----------------------------------------------------------------------------
(* String.prototype.localeCompare: the Unicode collation algorithm at its    *)
(* default (tertiary) strength, for strings of ASCII letters, U+00E9 and     *)
(* U+0301                                                                    *)

RECURSIVE Decompose(_)
\* canonical decomposition of a string
Decompose(s) ==
    IF s = <<>> THEN <<>>
    ELSE (IF Head(s) = EAcute THEN <<"e", CombiningAcute>> ELSE <<Head(s)>>)
            \o Decompose(Tail(s))

IsUpper(c) == c # CombiningAcute /\ CodeUnit(c) >= 65 /\ CodeUnit(c) <= 90

\* the collation element of a decomposed character: a letter has its place in
\* the alphabet as primary weight, the common secondary weight and its case
\* as tertiary weight; the accent is ignorable at the primary level
CollationElement(c) ==
    IF c = CombiningAcute THEN [primary |-> 0, secondary |-> 2, tertiary |-> 1]
    ELSE IF IsUpper(c)
    THEN [primary |-> CodeUnit(c) - 64, secondary |-> 1, tertiary |-> 2]
    ELSE [primary |-> CodeUnit(c) - 96, secondary |-> 1, tertiary |-> 1]

\* the weights of one level, without the ignorable ones
LevelKey(s, level) ==
    LET elements == [i \in 1..Len(Decompose(s)) |-> CollationElement(Decompose(s)[i])[level]]
    IN SelectSeq(elements, LAMBDA w : w # 0)

\* lexicographic order of two sequences of weights
WeightsLess(k1, k2) ==
    \/ \E i \in 1..Len(k1) :
        /\ i <= Len(k2)
        /\ SubSeq(k1, 1, i - 1) = SubSeq(k2, 1, i - 1)
        /\ k1[i] < k2[i]
    \/ Len(k1) < Len(k2) /\ SubSeq(k2, 1, Len(k1)) = k1

RECURSIVE CompareLevels(_, _, _)
CompareLevels(s1, s2, levels) ==
    IF levels = <<>> THEN 0
    ELSE IF WeightsLess(LevelKey(s1, Head(levels)), LevelKey(s2, Head(levels))) THEN -1
    ELSE IF WeightsLess(LevelKey(s2, Head(levels)), LevelKey(s1, Head(levels))) THEN 1
    ELSE CompareLevels(s1, s2, Tail(levels))

localeCompareCodeUnits(s1, s2) ==
    IF CodeUnitLess(s1, s2) THEN -1 ELSE IF CodeUnitLess(s2, s1) THEN 1 ELSE 0

\* s1.localeCompare(s2)
localeCompare(s1, s2) == CompareLevels(s1, s2, <<"primary", "secondary", "tertiary">>)

-----------------------------------------------------------------------------
(* The reports directory *)

\* reportsDir, baseSuffix and prSuffix as the Action passes them
reportsDir == <<"b", "e", "n", "c", "h", "m", "a", "r", "k", "s">>
baseSuffix == <<"_", "b", "a", "s", "e">>
prSuffix == <<"_", "l", "a", "t", "e", "s", "t">>

BenchmarkJson == <<".", "b", "e", "n", "c", "h", "m", "a", "r", "k", ".", "j", "s", "o", "n">>

\* path.join(reportsDir, file) for a file name
pathJoin(dir, file) == dir \o <<"/">> \o file

\* the name of the entry of reportsDir a joined path leads to
EntryOf(path) == SubSeq(path, Len(reportsDir) + 2, Len(path))

\* fs.existsSync(path)
existsSync(path) == dirState = "ok" /\ EntryOf(path) \in DOMAIN dirFiles

\* the file a path leads to, as existsSync, readFileSync and JSON.parse see it
FileAt(path) == IF existsSync(path) THEN dirFiles[EntryOf(path)] ELSE NoFile

-----------------------------------------------------------------------------
(* findBenchmarkPairs *)

prSuffixPattern == prSuffix \o BenchmarkJson
baseSuffixPattern == baseSuffix \o BenchmarkJson

\* file.substring(0, file.length - prSuffixPattern.length)
contractNameOf(file) == SubSeq(file, 1, Len(file) - Len(prSuffixPattern))

PairOf(file) ==
    [contractName |-> contractNameOf(file),
     baseJsonPath |-> pathJoin(reportsDir, contractNameOf(file) \o baseSuffixPattern),
     prJsonPath |-> pathJoin(reportsDir, file)]

RECURSIVE PairsNoExistsCheck(_)
PairsNoExistsCheck(files) ==
    IF files = <<>> THEN <<>>
    ELSE LET file == files[Len(files)]
             before == PairsNoExistsCheck(SubSeq(files, 1, Len(files) - 1))
         IN IF EndsWith(file, prSuffixPattern)
            THEN Append(before, PairOf(file))
            ELSE before

RECURSIVE PairsIn(_)
\* the loop over files: the pairs pushed, in the order of files
PairsIn(files) ==
    IF files = <<>> THEN <<>>
    ELSE LET file == files[Len(files)]
             before == PairsIn(SubSeq(files, 1, Len(files) - 1))
         IN IF EndsWith(file, prSuffixPattern) /\ existsSync(PairOf(file).baseJsonPath)
            THEN Append(before, PairOf(file))
            ELSE before

findBenchmarkPairsNoCatch(files) ==
    IF dirState # "ok"
    THEN [threw |-> dirState # "ENOENT", pairs |-> <<>>]
    ELSE [threw |-> FALSE, pairs |-> PairsIn(files)]

findBenchmarkPairsNoExistsCheck(files) ==
    IF dirState # "ok"
    THEN [threw |-> FALSE, pairs |-> <<>>]
    ELSE [threw |-> FALSE, pairs |-> PairsNoExistsCheck(files)]

\* findBenchmarkPairs, where files is what readdirSync returns when it does
\* not throw: an error of readdirSync is caught and leaves pairs empty
findBenchmarkPairs(files) ==
    IF dirState # "ok"
    THEN [threw |-> FALSE, pairs |-> <<>>]
    ELSE [threw |-> FALSE, pairs |-> PairsIn(files)]

-----------------------------------------------------------------------------
(* runComparison *)

sortPairsListingOrder(pairs) == pairs

RECURSIVE sortPairs(_)
\* benchmarkPairs.sort((a, b) => a.contractName.localeCompare(b.contractName)):
\* a stable sort, so pairs that compare equal keep their order
sortPairs(pairs) ==
    IF pairs = <<>> THEN <<>>
    ELSE LET last == pairs[Len(pairs)]
             before == sortPairs(SubSeq(pairs, 1, Len(pairs) - 1))
             k == Cardinality({i \in 1..Len(before) :
                    localeCompare(before[i].contractName, last.contractName) <= 0})
         IN SubSeq(before, 1, k) \o <<last>> \o SubSeq(before, k + 1, Len(before))

\* a string of markdownOutput: the marker comment, the header, the heading of
\* a contract, the table of a contract, the line break after it; or the whole
\* document returned when there are no pairs
Part(kind, contractName, table) ==
    [kind |-> kind, contractName |-> contractName, table |-> table]

MarkerPart == Part("marker", <<>>, NoTable)
HeaderPart == Part("header", <<>>, NoTable)
HeadingPart(contractName) == Part("heading", contractName, NoTable)
TablePart(table) == Part("table", <<>>, table)
NewlinePart == Part("newline", <<>>, NoTable)

\* markdownOutput.join('\n'): the parts in their order
JoinParts(parts) == parts

\* the text after the header in the document returned when there are no pairs
NoPairsPart == Part("no_pairs", <<>>, NoTable)

\* line 254: the header, an empty line and the no-pairs text, without the
\* marker comment
NoPairsDocument == <<HeaderPart, NoPairsPart>>

RECURSIVE OrdersOf(_)
\* the sequences that hold each element of a set once
OrdersOf(S) ==
    IF S = {} THEN {<<>>}
    ELSE UNION {{<<x>> \o order : order \in OrdersOf(S \ {x})} : x \in S}

\* the orders in which readdirSync may list the entries of the directory
ListingOrders == OrdersOf(DOMAIN dirFiles)

\* lines 241-260: the pairs are found; without pairs the run returns the
\* no-pairs document, otherwise the pairs are sorted and the loop begins
RunStart ==
    /\ pc = "run_call"
    /\ \E files \in ListingOrders :
        LET found == findBenchmarkPairs(files)
        IN IF found.threw
           THEN /\ pc' = "run_threw"
                /\ UNCHANGED <<benchmarkPairs, markdownOutput, pairIndex, returned>>
           ELSE IF found.pairs = <<>>
           THEN /\ pc' = "run_done"
                /\ benchmarkPairs' = <<>>
                /\ returned' = Append(returned, NoPairsDocument)
                /\ UNCHANGED <<markdownOutput, pairIndex>>
           ELSE /\ pc' = "run_loop"
                /\ benchmarkPairs' = sortPairs(found.pairs)
                /\ markdownOutput' = <<MarkerPart, HeaderPart>>
                /\ pairIndex' = 1
                /\ UNCHANGED returned
    /\ UNCHANGED <<peripheralVars, threshold, emojiVars, tableVars, dirState, dirFiles>>

\* the table of the pair the loop is at
CurrentTable ==
    LET pair == benchmarkPairs[pairIndex]
    IN generateContractComparisonTable(pair.contractName, FileAt(pair.baseJsonPath),
            FileAt(pair.prJsonPath), threshold)

\* lines 262-268: one pass of the loop
ProcessPair ==
    /\ pc = "run_loop"
    /\ pairIndex <= Len(benchmarkPairs)
    /\ CurrentTable.kind # "throw"
    /\ markdownOutput' = markdownOutput \o
            <<HeadingPart(benchmarkPairs[pairIndex].contractName),
              TablePart(CurrentTable), NewlinePart>>
    /\ pairIndex' = pairIndex + 1
    /\ UNCHANGED <<peripheralVars, pc, threshold, emojiVars, tableVars, dirState, dirFiles,
                   benchmarkPairs, returned>>

\* line 264: the TypeError of generateContractComparisonTable leaves
\* runComparison, which has no handler
ProcessPairThrows ==
    /\ pc = "run_loop"
    /\ pairIndex <= Len(benchmarkPairs)
    /\ CurrentTable.kind = "throw"
    /\ pc' = "run_threw"
    /\ UNCHANGED <<peripheralVars, threshold, emojiVars, tableVars, runVars>>

\* lines 270-271: the document is returned
RunReturn ==
    /\ pc = "run_loop"
    /\ pairIndex > Len(benchmarkPairs)
    /\ returned' = Append(returned, JoinParts(markdownOutput))
    /\ pc' = "run_done"
    /\ UNCHANGED <<peripheralVars, threshold, emojiVars, tableVars, dirState, dirFiles,
                   benchmarkPairs, markdownOutput, pairIndex>>

\* the comparison is called again on the unchanged directory
RunAgain ==
    /\ pc = "run_done"
    /\ Len(returned) < MaxRuns
    /\ pc' = "run_call"
    /\ benchmarkPairs' = <<>>
    /\ markdownOutput' = <<>>
    /\ pairIndex' = 0
    /\ UNCHANGED <<peripheralVars, threshold, emojiVars, tableVars, dirState, dirFiles, returned>>

-----------------------------------------------------------------------------
(* SpecEmoji: getStatusEmoji applied to every metric triple and threshold *)

MetricValues == 0..MaxMetric

MetricPair == [main : MetricValues, pr : MetricValues]

\* thresholds in percent: the fractional changes of MetricValues hit 50 and
\* 100 exactly
Thresholds == {-50, 0, 50, 100}

NoMetrics == [gates |-> [main |-> 0, pr |-> 0],
              daGas |-> [main |-> 0, pr |-> 0],
              l2Gas |-> [main |-> 0, pr |-> 0]]

\* the variables of the calls a specification does not make
IdleEmoji == metrics = NoMetrics /\ statusEmoji = ""
IdleTable == mainData = NoFile /\ prData = NoFile /\ tableMarkdown = NoTable
IdleRun ==
    /\ dirState = "ok"
    /\ dirFiles = [file \in {} |-> NoFile]
    /\ benchmarkPairs = <<>>
    /\ markdownOutput = <<>>
    /\ pairIndex = 0
    /\ returned = <<>>

IdleDiff == diffMain = 0 /\ diffPr = 0 /\ diffText = <<>>
IdleExtract == extractInput = NoResult /\ extracted = NoMetrics.gates
IdleAction ==
    /\ thresholdInput = <<>>
    /\ parsedThreshold = [nan |-> TRUE, n |-> 0, d |-> 1]
    /\ execOutcome = "none"
    /\ writeOutcome = "none"
    /\ actionLog = <<>>
    /\ outputs = <<>>
    /\ reportFile = <<>>
IdleProfiler == fsToProfile = <<>> /\ profiled = <<>> /\ profileIndex = 0
IdleCli ==
    /\ contractsToRun = <<>>
    /\ contractIndex = 0
    /\ runContext = "none"
    /\ cliLog = <<>>
    /\ outputDir = <<>>
IdlePeripheral == IdleDiff /\ IdleExtract /\ IdleAction /\ IdleProfiler /\ IdleCli

InitEmoji ==
    /\ pc = "emoji_call"
    /\ IdlePeripheral
    /\ metrics \in [gates : MetricPair, daGas : MetricPair, l2Gas : MetricPair]
    /\ threshold \in Thresholds
    /\ statusEmoji = ""
    /\ IdleTable
    /\ IdleRun

Classify ==
    /\ pc = "emoji_call"
    /\ statusEmoji' = getStatusEmoji(metrics, threshold)
    /\ pc' = "emoji_done"
    /\ UNCHANGED <<peripheralVars, metrics, threshold, tableVars, runVars>>

NextEmoji == Classify

SpecEmoji == InitEmoji /\ [][NextEmoji]_vars

-----------------------------------------------------------------------------
(* SpecTable: generateContractComparisonTable applied to two report files *)

NameA == <<"a">>
NameB == <<"b">>

\* the results the report files are built from
TableResults ==
    {Result(StrName(NameA), Num(100), Gas(Num(10), Num(20))),
     Result(StrName(NameA), Num(50), NoGas),
     Result(StrName(NameB), Num(50), NoGas),
     Result(StrName(NameB), Num(100), Gas(Num(10), Num(20))),
     Result(StrName(UnknownFunctionPrefix \o <<"_", "1">>), Num(100), NoGas),
     Result(StrName(<<"m", "y", "_">> \o UnknownFunctionPrefix), Num(100), NoGas),
     Result(StrName(NameA \o <<" ">> \o FailedMarker), Undefined, Gas(Num(0), Num(0))),
     Result(StrName(RunnerErrorName), Num(100), NoGas),
     Result(StrName(<<>>), Num(100), NoGas),
     Result(NoName, Num(100), NoGas),
     Result(NumberName, Num(100), NoGas),
     Result(StrName(ProtoKey), Num(100), NoGas),
     NullResult}

\* the report files holding an array of n results
ReportsOfLen(n) == {ObjectFile(ArrayResults(items)) : items \in [1..n -> TableResults]}

\* the files that hold no results array
MalformedFiles ==
    {NoFile, UnparseableFile, NullFile, ObjectFile(NoResults), ObjectFile(NumberResults)}

TableContractName == <<"T">>

TableThreshold == 5

InitTable ==
    /\ pc = "table_call"
    /\ IdlePeripheral
    /\ IdleEmoji
    /\ IdleRun
    /\ threshold = TableThreshold
    /\ tableMarkdown = NoTable
    /\ \/ \E n \in 0..MaxResults : \E k \in 0..(MaxResults - n) :
            mainData \in ReportsOfLen(n) /\ prData \in ReportsOfLen(k)
       \/ \E n \in 0..1 :
            /\ mainData \in MalformedFiles
            /\ prData \in MalformedFiles \cup ReportsOfLen(n)
       \/ \E n \in 0..1 :
            /\ mainData \in ReportsOfLen(n)
            /\ prData \in MalformedFiles

\* the call returns a string
CompareReturn ==
    /\ pc = "table_call"
    /\ generateContractComparisonTable(TableContractName, mainData, prData, threshold).kind # "throw"
    /\ tableMarkdown' =
        generateContractComparisonTable(TableContractName, mainData, prData, threshold)
    /\ pc' = "table_done"
    /\ UNCHANGED <<peripheralVars, threshold, emojiVars, mainData, prData, runVars>>

\* the call throws
CompareThrow ==
    /\ pc = "table_call"
    /\ generateContractComparisonTable(TableContractName, mainData, prData, threshold).kind = "throw"
    /\ tableMarkdown' = Produced("throw", <<>>, <<>>)
    /\ pc' = "table_threw"
    /\ UNCHANGED <<peripheralVars, threshold, emojiVars, mainData, prData, runVars>>

NextTable == CompareReturn \/ CompareThrow

SpecTable == InitTable /\ [][NextTable]_vars

-----------------------------------------------------------------------------
(* Spec: runComparison on a reports directory *)

\* contract names: two that differ only in case, and two canonically
\* equivalent spellings of one name
ContractNames == {<<"B">>, <<"b">>, <<EAcute>>, <<"e", CombiningAcute>>}

PrFileOf(name) == name \o prSuffixPattern
BaseFileOf(name) == name \o baseSuffixPattern

\* a file that is no report
OtherFile == <<"a">> \o prSuffix \o <<".", "j", "s", "o", "n">>

FileUniverse ==
    {PrFileOf(name) : name \in ContractNames}
        \cup {BaseFileOf(name) : name \in ContractNames} \cup {OtherFile}

ReportA == ObjectFile(ArrayResults(<<Result(StrName(NameA), Num(100), Gas(Num(10), Num(20)))>>))
ReportAB ==
    ObjectFile(ArrayResults(<<Result(StrName(NameA), Num(100), Gas(Num(10), Num(20))),
                              Result(StrName(NameB), Num(50), NoGas)>>))

BaseContents == {ReportA, UnparseableFile}
PrContents == {ReportAB, ObjectFile(NumberResults)}

\* the contracts of which a set of files holds both reports
PairedNames(files) ==
    {name \in ContractNames : PrFileOf(name) \in files /\ BaseFileOf(name) \in files}

InitRun ==
    /\ pc = "run_call"
    /\ IdlePeripheral
    /\ IdleEmoji
    /\ IdleTable
    /\ threshold = TableThreshold
    /\ benchmarkPairs = <<>>
    /\ markdownOutput = <<>>
    /\ pairIndex = 0
    /\ returned = <<>>
    /\ dirState \in {"ok", "ENOENT", "EACCES"}
    /\ \E files \in {F \in SUBSET FileUniverse : Cardinality(F) <= MaxFiles} :
        /\ dirState # "ok" => files = {}
        /\ \E base \in [PairedNames(files) -> BaseContents] :
            \E pr \in [PairedNames(files) -> PrContents] :
                dirFiles = [file \in files |->
                    IF \E name \in PairedNames(files) : file = BaseFileOf(name)
                    THEN base[CHOOSE name \in PairedNames(files) : file = BaseFileOf(name)]
                    ELSE IF \E name \in PairedNames(files) : file = PrFileOf(name)
                    THEN pr[CHOOSE name \in PairedNames(files) : file = PrFileOf(name)]
                    ELSE ReportA]

Next == RunStart \/ ProcessPair \/ ProcessPairThrows \/ RunReturn \/ RunAgain

Spec == InitRun /\ [][Next]_vars

-----------------------------------------------------------------------------
(* Claims about getStatusEmoji, checked under SpecEmoji *)

MetricNames == {"gates", "daGas", "l2Gas"}

RemovedCondition ==
    /\ \A k \in MetricNames : metrics[k].pr = 0
    /\ \E k \in MetricNames : metrics[k].main > 0

NewCondition ==
    /\ \A k \in MetricNames : metrics[k].main = 0
    /\ \E k \in MetricNames : metrics[k].pr > 0

\* some metric changes from 0 to a positive value, or grows by more than
\* threshold percent of a positive base value
RegressionCondition ==
    \E k \in MetricNames :
        \/ metrics[k].main = 0 /\ metrics[k].pr > 0
        \/ /\ metrics[k].main > 0
           /\ (metrics[k].pr - metrics[k].main) * 100 > threshold * metrics[k].main

\* some metric with a positive base value shrinks by more than threshold percent
ImprovementCondition ==
    \E k \in MetricNames :
        /\ metrics[k].main > 0
        /\ (metrics[k].pr - metrics[k].main) * 100 < (-threshold) * metrics[k].main

\* C2: getStatusEmoji returns Removed exactly when all candidate-side values
\* are zero and some base-side value is positive, whatever the threshold.
C2_RemovedExactly ==
    pc = "emoji_done" => (statusEmoji = EmojiRemoved <=> RemovedCondition)

C2_Witness ==
    /\ pc = "emoji_done"
    /\ statusEmoji = EmojiRemoved
    /\ threshold < 0
    /\ metrics.gates.main = 0 /\ metrics.daGas.main = 0 /\ metrics.l2Gas.main > 0

\* C3: getStatusEmoji returns New exactly when all base-side values are zero
\* and some candidate-side value is positive; the Removed and New conditions
\* never hold together.
C3_NewExactly ==
    pc = "emoji_done" =>
        /\ statusEmoji = EmojiNew <=> NewCondition
        /\ ~(RemovedCondition /\ NewCondition)

C3_Witness ==
    /\ pc = "emoji_done"
    /\ statusEmoji = EmojiNew
    /\ metrics.gates.pr = 0 /\ metrics.daGas.pr > 0 /\ metrics.l2Gas.pr = 0

ZeroChangeExceeds ==
    threshold < 0 /\ \E k \in MetricNames : metrics[k].main = 0 /\ metrics[k].pr = 0

C5_ImprovementIff ==
    (pc = "emoji_done"
        /\ statusEmoji \notin {EmojiRemoved, EmojiNew, EmojiRegression}) =>
        /\ statusEmoji = EmojiImprovement <=> ImprovementCondition
        /\ statusEmoji = EmojiUnchanged <=> ~ImprovementCondition

C5_Witness ==
    /\ pc = "emoji_done"
    /\ threshold = 50
    /\ metrics.gates = [main |-> 2, pr |-> 1]
    /\ metrics.daGas = [main |-> 2, pr |-> 3]
    /\ metrics.l2Gas = [main |-> 0, pr |-> 0]
    /\ statusEmoji = EmojiUnchanged

-----------------------------------------------------------------------------
(* Claims about generateContractComparisonTable, checked under SpecTable *)

\* the function names shown in the rows of the produced table
RowNames == {tableMarkdown.rows[i].funcName : i \in 1..Len(tableMarkdown.rows)}

\* a name the specification excludes from the comparison
IsFailureName(s) ==
    \/ s = <<>>
    \/ StartsWith(s, UnknownFunctionPrefix)
    \/ Includes(s, FailedMarker)
    \/ s = RunnerErrorName

\* the names of string type in the two reports
ReportNames(file) ==
    {file.results.items[i].name.s :
        i \in {j \in 1..Len(file.results.items) : file.results.items[j].name.t = "string"}}

\* C1: no row of the produced table names a function whose name is empty,
\* starts with unknown_function, contains (FAILED) or equals
\* BENCHMARK_RUNNER_ERROR, whichever report the name occurs in.
C1_NoFailureNameInTable ==
    pc = "table_done" => \A s \in RowNames : ~IsFailureName(s)

C1_Witness ==
    /\ pc = "table_done"
    /\ tableMarkdown.kind = "table"
    /\ \E s \in ReportNames(mainData) : Includes(s, FailedMarker)
    /\ \E s \in ReportNames(prData) : StartsWith(s, UnknownFunctionPrefix)
    /\ NameA \in RowNames

\* the names the rows are expected for: the union of the two reports' names
\* without the excluded ones
ExpectedNames ==
    {s \in ReportNames(mainData) \cup ReportNames(prData) : ~IsFailureName(s)}

\* the rows are in ascending order of name, one row per name
RowsAscending ==
    \A i, j \in 1..Len(tableMarkdown.rows) :
        i < j => CodeUnitLess(tableMarkdown.rows[i].funcName, tableMarkdown.rows[j].funcName)

Zero == <<"0">>

\* a function absent from a report is shown with 0 for that side's metrics
AbsentSideZero ==
    \A i \in 1..Len(tableMarkdown.rows) :
        LET row == tableMarkdown.rows[i]
        IN /\ row.funcName \notin ReportNames(mainData) =>
                row.gates.main = Zero /\ row.daGas.main = Zero /\ row.l2Gas.main = Zero
           /\ row.funcName \notin ReportNames(prData) =>
                row.gates.pr = Zero /\ row.daGas.pr = Zero /\ row.l2Gas.pr = Zero

\* C7: for two well-formed reports the table has exactly one row for each name
\* of the union of the reports' names that survives the exclusion filter, in
\* ascending order of name, with 0 for the metrics of a side the function is
\* absent from.
C7_OneRowPerSurvivingName ==
    pc = "table_done" /\ tableMarkdown.kind \in {"table", "no_functions"} =>
        /\ RowNames = ExpectedNames
        /\ RowsAscending
        /\ AbsentSideZero

\* the same for reports in which no function is named __proto__
C7_ExceptProtoKey ==
    (pc = "table_done" /\ tableMarkdown.kind \in {"table", "no_functions"}
        /\ ProtoKey \notin ExpectedNames) =>
        /\ RowNames = ExpectedNames
        /\ RowsAscending
        /\ AbsentSideZero

\* the example: base {a: gates 100}, candidate {a: gates 100, b: gates 50},
\* threshold 5 gives the rows a (unchanged) and b (new)
C7_Example ==
    /\ pc = "table_done"
    /\ threshold = 5
    /\ Len(mainData.results.items) = 1
    /\ Len(prData.results.items) = 2
    /\ Len(tableMarkdown.rows) = 2
    /\ tableMarkdown.rows[1].funcName = NameA
    /\ tableMarkdown.rows[1].statusEmoji = EmojiUnchanged
    /\ tableMarkdown.rows[2].funcName = NameB
    /\ tableMarkdown.rows[2].statusEmoji = EmojiNew
    /\ tableMarkdown.rows[2].gates = [main |-> Zero, pr |-> <<"5", "0">>, diff |-> <<"+", "I", "n", "f", "%">>]

-----------------------------------------------------------------------------
(* Claims about findBenchmarkPairs and runComparison, checked under Spec *)

\* the last document returned
LastDocument == returned[Len(returned)]

\* the contract names of the headings of a document, in their order
HeadingNames(document) ==
    LET headings == SelectSeq(document, LAMBDA part : part.kind = "heading")
    IN [i \in 1..Len(headings) |-> headings[i].contractName]

\* the document holds, for each pair, a heading followed by a string
SectionPerPair(document) ==
    /\ Len(document) = 2 + 3 * Len(benchmarkPairs)
    /\ \A i \in 1..Len(benchmarkPairs) :
        /\ document[3 * i] = HeadingPart(benchmarkPairs[i].contractName)
        /\ document[3 * i + 1].kind = "table"
        /\ document[3 * i + 1].table.kind
                \in {"error_missing", "error_parsing", "skipping", "no_functions", "table"}

\* C6: no exception escapes the comparison of a pair, whatever the two files
\* hold: runComparison returns a document with one section for each
\* discovered contract.
C6_NoExceptionEscapes ==
    /\ pc # "run_threw"
    /\ (pc = "run_done" /\ benchmarkPairs # <<>>) => SectionPerPair(LastDocument)

\* the same for directories whose reports the comparison can read: every
\* results field that is present is an array of objects with string names
C6_WhenResultsAreArrays ==
    (\A file \in DOMAIN dirFiles : dirFiles[file].results.t # "number") =>
        /\ pc # "run_threw"
        /\ (pc = "run_done" /\ benchmarkPairs # <<>>) => SectionPerPair(LastDocument)

\* the beginnings of the names of the files in the directory
NamePrefixes ==
    UNION {{SubSeq(file, 1, k) : k \in 0..Len(file)} : file \in DOMAIN dirFiles}

HasBothFiles(name) ==
    /\ (name \o prSuffix \o BenchmarkJson) \in DOMAIN dirFiles
    /\ (name \o baseSuffix \o BenchmarkJson) \in DOMAIN dirFiles

\* C8: there is a pair for contract name C if and only if the directory
\* holds both C<prSuffix>.benchmark.json and C<baseSuffix>.benchmark.json;
\* a candidate file without base file gives no pair and no error, and the
\* paths of a pair are those two files.
C8_PairIffBothFiles ==
    pc \in {"run_loop", "run_done"} =>
        /\ \A i \in 1..Len(benchmarkPairs) :
            /\ HasBothFiles(benchmarkPairs[i].contractName)
            /\ benchmarkPairs[i].prJsonPath =
                reportsDir \o <<"/">> \o benchmarkPairs[i].contractName
                    \o prSuffix \o BenchmarkJson
            /\ benchmarkPairs[i].baseJsonPath =
                reportsDir \o <<"/">> \o benchmarkPairs[i].contractName
                    \o baseSuffix \o BenchmarkJson
            /\ \A j \in 1..Len(benchmarkPairs) :
                benchmarkPairs[i].contractName = benchmarkPairs[j].contractName => i = j
        /\ \A name \in NamePrefixes :
            HasBothFiles(name) =>
                \E i \in 1..Len(benchmarkPairs) : benchmarkPairs[i].contractName = name

C8_Witness ==
    /\ pc = "run_loop"
    /\ Len(benchmarkPairs) = 1
    /\ benchmarkPairs[1].contractName = <<"B">>
    /\ PrFileOf(<<"b">>) \in DOMAIN dirFiles
    /\ BaseFileOf(<<"b">>) \notin DOMAIN dirFiles

\* C9: when the reports directory does not exist or cannot be read,
\* findBenchmarkPairs returns no pairs without throwing and runComparison
\* returns the no-pairs document.
C9_UnreadableDirectory ==
    dirState # "ok" =>
        /\ pc \in {"run_call", "run_done"}
        /\ benchmarkPairs = <<>>
        /\ pc = "run_done" => LastDocument = NoPairsDocument

C9_Witness ==
    /\ dirState = "EACCES"
    /\ pc = "run_done"
    /\ returned = <<NoPairsDocument>>

\* C10: the document depends only on the files of the directory, their
\* contents, the suffixes and the threshold: all runs on the same directory
\* return the same document, in whatever order the directory is listed.
C10_SameDocument ==
    \A i, j \in 1..Len(returned) : returned[i] = returned[j]

\* the same for directories without two contract names that localeCompare
\* takes as equal
C10_WhenNoNamesCompareEqual ==
    (\A n1, n2 \in PairedNames(DOMAIN dirFiles) : n1 # n2 => localeCompare(n1, n2) # 0) =>
        \A i, j \in 1..Len(returned) : returned[i] = returned[j]

C10_TwoRuns ==
    /\ Len(returned) = 2
    /\ Len(HeadingNames(returned[1])) = 2
    /\ returned[1] = returned[2]

\* the place of a contract name among the headings of a document (0: none)
HeadingIndex(document, name) ==
    IF \E i \in 1..Len(HeadingNames(document)) : HeadingNames(document)[i] = name
    THEN CHOOSE i \in 1..Len(HeadingNames(document)) : HeadingNames(document)[i] = name
    ELSE 0

C12_MarkerPrefix ==
    \A d \in 1..Len(returned) :
        /\ Len(returned[d]) >= 2
        /\ returned[d][1] = MarkerPart
        /\ returned[d][2] = HeaderPart

\* the same for the documents of runs that found pairs
C12_WhenPairsFound ==
    \A d \in 1..Len(returned) :
        HeadingNames(returned[d]) # <<>> =>
            returned[d][1] = MarkerPart /\ returned[d][2] = HeaderPart

-----------------------------------------------------------------------------
(* SpecDiff: formatDiff applied to pairs of numbers *)

\* the numbers formatDiff is applied to: the small whole numbers, the values
\* of the documented examples, halves, a pair 0.5 apart at 10000, and two
\* negative numbers
DiffValues ==
    {Rat(n, 1) : n \in 0..MaxMetric}
        \cup {Rat(1, 2), Rat(3, 2), Rat(5, 1), Rat(100, 1), Rat(1000, 1), Rat(1050, 1),
              Rat(2500, 1), Rat(10000, 1), Rat(20001, 2), Rat(-100, 1), Rat(-50, 1)}

IdleEngine ==
    /\ threshold = 0
    /\ metrics = NoMetrics /\ statusEmoji = ""
    /\ IdleTable
    /\ IdleRun

InitDiff ==
    /\ pc = "diff_call"
    /\ IdleEngine
    /\ IdleProfiler
    /\ IdleCli
    /\ IdleExtract
    /\ IdleAction
    /\ diffMain \in DiffValues
    /\ diffPr \in DiffValues
    /\ diffText = <<>>

FormatDiff ==
    /\ pc = "diff_call"
    /\ diffText' = formatDiffOf(diffMain, diffPr)
    /\ pc' = "diff_done"
    /\ UNCHANGED <<engineVars, extractVars, actionVars, profilerVars, cliVars, diffMain, diffPr>>

NextDiff == FormatDiff

SpecDiff == InitDiff /\ [][NextDiff]_vars

-----------------------------------------------------------------------------
(* Claims about formatDiff, checked under SpecDiff *)

\* C13: formatDiff returns the empty string when both numbers are 0 or when
\* they are equal, +Inf% when the base is 0 and the candidate is not, and
\* -100% when the candidate is 0 and the base is not.
C13_SpecialCases ==
    pc = "diff_done" =>
        /\ (diffMain.n = 0 /\ diffPr.n = 0) => diffText = <<>>
        /\ diffMain.n * diffPr.d = diffPr.n * diffMain.d => diffText = <<>>
        /\ (diffMain.n = 0 /\ diffPr.n # 0) => diffText = <<"+", "I", "n", "f", "%">>
        /\ (diffPr.n = 0 /\ diffMain.n # 0) => diffText = <<"-", "1", "0", "0", "%">>
        /\ (diffMain = Rat(100, 1) /\ diffPr = Rat(100, 1)) => diffText = <<>>

C13_Witness ==
    /\ pc = "diff_done"
    /\ diffMain = Rat(5, 1)
    /\ diffPr = Rat(0, 1)
    /\ diffText = <<"-", "1", "0", "0", "%">>

C13_InfiniteExample ==
    /\ pc = "diff_done"
    /\ diffMain = Rat(0, 1)
    /\ diffPr = Rat(5, 1)
    /\ diffText = <<"+", "I", "n", "f", "%">>

\* the place of the first character c in a string (0: none)
IndexOf(text, c) ==
    IF \E i \in 1..Len(text) : text[i] = c
    THEN CHOOSE i \in 1..Len(text) : text[i] = c /\ \A j \in 1..(i - 1) : text[j] # c
    ELSE 0

\* the digits before and after the decimal point of an unsigned decimal
IntegerDigits(part) ==
    IF IndexOf(part, ".") = 0 THEN part ELSE SubSeq(part, 1, IndexOf(part, ".") - 1)
FractionDigits(part) ==
    IF IndexOf(part, ".") = 0 THEN <<>> ELSE SubSeq(part, IndexOf(part, ".") + 1, Len(part))

\* an unsigned decimal with its integer digits in groups of three
IsGroupedDecimal(part) ==
    /\ IntegerDigits(part) # <<>>
    /\ \A i \in 1..Len(IntegerDigits(part)) :
        LET c == IntegerDigits(part)[Len(IntegerDigits(part)) - i + 1]
        IN IF i % 4 = 0 THEN c = "," /\ i < Len(IntegerDigits(part)) ELSE IsDigit(c)
    /\ \A i \in 1..Len(FractionDigits(part)) : IsDigit(FractionDigits(part)[i])
    /\ Len(FractionDigits(part)) <= 3
    /\ IndexOf(part, ".") # 0 => FractionDigits(part) # <<>>

\* an unsigned decimal with exactly one digit after the point and no commas
IsOneDecimal(part) ==
    /\ IntegerDigits(part) # <<>>
    /\ \A i \in 1..Len(IntegerDigits(part)) : IsDigit(IntegerDigits(part)[i])
    /\ Len(FractionDigits(part)) = 1
    /\ IsDigit(FractionDigits(part)[1])

\* the value of an unsigned decimal in thousandths
Thousandths(part) ==
    DigitsValue(IntegerDigits(part)) * 1000
        + DigitsValue(SubSeq(FractionDigits(part) \o <<"0", "0", "0">>, 1, 3))

\* text is <sign><grouped delta> (<sign><percent with one decimal>%), both
\* with the sign of the delta deltaN / deltaD, the delta to the nearest
\* thousandth and the percent 100 * pctN / pctD to the nearest tenth
IsDeltaAndPercent(text, deltaN, deltaD, pctN, pctD) ==
    LET space == IndexOf(text, " ")
        sign == IF deltaN > 0 THEN "+" ELSE "-"
        delta == SubSeq(text, 2, space - 1)
        percent == SubSeq(text, space + 3, Len(text) - 2)
    IN /\ space > 2
       /\ Len(text) >= space + 5
       /\ text[1] = sign
       /\ text[space + 1] = "("
       /\ text[space + 2] = sign
       /\ SubSeq(text, Len(text) - 1, Len(text)) = <<"%", ")">>
       /\ IsGroupedDecimal(delta)
       /\ IsOneDecimal(percent)
       /\ 2 * Abs(Thousandths(delta) * deltaD - Abs(deltaN) * 1000) <= deltaD
       /\ (pctN > 0) = (pctD > 0) <=> deltaN > 0
       /\ 2 * Abs((Thousandths(percent) \div 100) * Abs(pctD) - Abs(pctN) * 1000) <= Abs(pctD)

\* the delta and the percent of the arguments, and the case of small noise
DeltaN == diffPr.n * diffMain.d - diffMain.n * diffPr.d
DeltaD == diffMain.d * diffPr.d
PercentN == DeltaN * diffMain.d
PercentD == DeltaD * diffMain.n
IsSmallNoise == Abs(PercentN) * 10000 < Abs(PercentD) /\ Abs(DeltaN) < DeltaD

\* C14: for a nonzero base and a nonzero candidate that differ, formatDiff
\* returns the signed, thousands-grouped delta followed by the signed percent
\* with one decimal in parentheses, both with the same sign, except that it
\* returns the empty string when the percent is below 0.01 in magnitude and
\* the delta below 1.
C14_DeltaAndPercent ==
    (pc = "diff_done" /\ diffMain.n # 0 /\ diffPr.n # 0 /\ DeltaN # 0) =>
        /\ IsSmallNoise => diffText = <<>>
        /\ ~IsSmallNoise => IsDeltaAndPercent(diffText, DeltaN, DeltaD, PercentN, PercentD)
        /\ (diffMain = Rat(1000, 1) /\ diffPr = Rat(1050, 1)) =>
            diffText = <<"+", "5", "0", " ", "(", "+", "5", ".", "0", "%", ")">>

\* the same for a positive base
C14_WhenBasePositive ==
    (pc = "diff_done" /\ diffMain.n > 0 /\ diffPr.n # 0 /\ DeltaN # 0) =>
        /\ IsSmallNoise => diffText = <<>>
        /\ ~IsSmallNoise => IsDeltaAndPercent(diffText, DeltaN, DeltaD, PercentN, PercentD)
        /\ (diffMain = Rat(1000, 1) /\ diffPr = Rat(1050, 1)) =>
            diffText = <<"+", "5", "0", " ", "(", "+", "5", ".", "0", "%", ")">>

C14_SmallNoiseExample ==
    /\ pc = "diff_done"
    /\ diffMain = Rat(10000, 1)
    /\ diffPr = Rat(20001, 2)
    /\ diffText = <<>>

C14_GroupedExample ==
    /\ pc = "diff_done"
    /\ diffMain = Rat(2500, 1)
    /\ diffPr = Rat(1000, 1)
    /\ diffText = <<"-", "1", ",", "5", "0", "0", " ", "(", "-", "6", "0", ".", "0", "%", ")">>

-----------------------------------------------------------------------------
(* SpecExtract: the metrics read from one result record *)

\* the scalar fields a record may hold: absent, null, or a number (one of
\* them below 0)
ScalarValues == {Undefined, Null} \cup {Num(n) : n \in (-1)..MaxMetric}

\* the gas fields a record may hold
GasValues ==
    {NoGas, NullGas, EmptyGas, GasWithNullLimits}
        \cup {Gas(da, l2) : da \in ScalarValues, l2 \in ScalarValues}

\* the records metrics are read from: what find returns for a name
ExtractRecords ==
    {NoResult} \cup {Result(StrName(NameA), gates, gas) : gates \in ScalarValues, gas \in GasValues}

NotExtracted == [gates |-> 0, daGas |-> 0, l2Gas |-> 0]

InitExtract ==
    /\ pc = "extract_call"
    /\ IdleEngine
    /\ IdleProfiler
    /\ IdleCli
    /\ IdleDiff
    /\ IdleAction
    /\ extractInput \in ExtractRecords
    /\ extracted = NotExtracted

\* lines 163-165, for one side
ExtractMetrics ==
    /\ pc = "extract_call"
    /\ extracted' = [gates |-> getGates(extractInput),
                     daGas |-> getDaGas(extractInput),
                     l2Gas |-> getL2Gas(extractInput)]
    /\ pc' = "extract_done"
    /\ UNCHANGED <<engineVars, diffVars, actionVars, profilerVars, cliVars, extractInput>>

NextExtract == ExtractMetrics

SpecExtract == InitExtract /\ [][NextExtract]_vars

-----------------------------------------------------------------------------
(* Claims about metric extraction, checked under SpecExtract *)

\* C15: for every result record, and for an absent one, the three values
\* extracted are non-negative numbers, and a missing gas object, missing
\* gasLimits or missing scalar gives 0.
C15_NonNegative ==
    pc = "extract_done" =>
        /\ extracted.gates >= 0 /\ extracted.daGas >= 0 /\ extracted.l2Gas >= 0
        /\ extractInput.totalGateCount.t # "number" => extracted.gates = 0
        /\ (extractInput.gas.t # "object" \/ extractInput.gas.gasLimits.t # "object") =>
            extracted.daGas = 0 /\ extracted.l2Gas = 0

\* the same for records whose numbers are not below 0; a field that is
\* absent or null gives 0
C15_WhenFieldsNonNegative ==
    (pc = "extract_done"
        /\ extractInput.totalGateCount.n >= 0
        /\ extractInput.gas.gasLimits.daGas.n >= 0
        /\ extractInput.gas.gasLimits.l2Gas.n >= 0) =>
        /\ extracted.gates >= 0 /\ extracted.daGas >= 0 /\ extracted.l2Gas >= 0
        /\ extractInput.totalGateCount.t # "number" => extracted.gates = 0
        /\ (extractInput.gas.t # "object" \/ extractInput.gas.gasLimits.t # "object") =>
            extracted.daGas = 0 /\ extracted.l2Gas = 0

C15_MissingGasExample ==
    /\ pc = "extract_done"
    /\ extractInput.t = "object"
    /\ extractInput.gas = NoGas
    /\ extractInput.totalGateCount = Num(MaxMetric)
    /\ extracted = [gates |-> MaxMetric, daGas |-> 0, l2Gas |-> 0]

-----------------------------------------------------------------------------
(* Claims about duplicate names, checked under SpecTable *)

\* the first entry of a report's results with the name s
FirstEntry(file, s) ==
    file.results.items[CHOOSE i \in 1..Len(file.results.items) :
        /\ file.results.items[i].name = StrName(s)
        /\ \A j \in 1..(i - 1) : file.results.items[j].name # StrName(s)]

\* the three values shown for an entry
ShownValues(entry) ==
    <<toLocaleString(getGates(entry)), toLocaleString(getDaGas(entry)),
      toLocaleString(getL2Gas(entry))>>

\* C16: when a report holds several entries with one name, the row of that
\* name shows, on each side, the metrics of the first such entry of that
\* side's report, and the name has one row only.
C16_FirstEntryWins ==
    (pc = "table_done" /\ tableMarkdown.kind = "table") =>
        \A i \in 1..Len(tableMarkdown.rows) :
            LET row == tableMarkdown.rows[i]
            IN /\ row.funcName \in ReportNames(mainData) =>
                    <<row.gates.main, row.daGas.main, row.l2Gas.main>>
                        = ShownValues(FirstEntry(mainData, row.funcName))
               /\ row.funcName \in ReportNames(prData) =>
                    <<row.gates.pr, row.daGas.pr, row.l2Gas.pr>>
                        = ShownValues(FirstEntry(prData, row.funcName))
               /\ \A j \in 1..Len(tableMarkdown.rows) :
                    tableMarkdown.rows[j].funcName = row.funcName => i = j

C16_Witness ==
    /\ pc = "table_done"
    /\ tableMarkdown.kind = "table"
    /\ Len(mainData.results.items) = 2
    /\ mainData.results.items[1] = Result(StrName(NameA), Num(50), NoGas)
    /\ mainData.results.items[2] = Result(StrName(NameA), Num(100), Gas(Num(10), Num(20)))
    /\ Len(tableMarkdown.rows) = 1
    /\ tableMarkdown.rows[1].gates.main = <<"5", "0">>
    /\ tableMarkdown.rows[1].daGas.main = <<"0">>

-----------------------------------------------------------------------------
(* The GitHub Action: run *)

RECURSIVE TrimStart(_)
\* a string without its leading white space
TrimStart(s) == IF s # <<>> /\ Head(s) = " " THEN TrimStart(Tail(s)) ELSE s

RECURSIVE LeadingDigits(_)
\* the digits a string begins with
LeadingDigits(s) ==
    IF s # <<>> /\ IsDigit(Head(s)) THEN <<Head(s)>> \o LeadingDigits(Tail(s)) ELSE <<>>

RECURSIVE PowerOfTen(_)
PowerOfTen(k) == IF k = 0 THEN 1 ELSE 10 * PowerOfTen(k - 1)

NaN == [nan |-> TRUE, n |-> 0, d |-> 1]

\* parseFloat: the number n / d written by the longest beginning of the
\* trimmed string that is a decimal literal (sign, digits, point, digits), or
\* NaN when there is none (exponents and Infinity are not among the inputs)
parseFloat(input) ==
    LET s == TrimStart(input)
        negative == s # <<>> /\ Head(s) = "-"
        unsigned == IF s # <<>> /\ Head(s) \in {"+", "-"} THEN Tail(s) ELSE s
        whole == LeadingDigits(unsigned)
        rest == SubSeq(unsigned, Len(whole) + 1, Len(unsigned))
        fraction == IF rest # <<>> /\ Head(rest) = "." THEN LeadingDigits(Tail(rest)) ELSE <<>>
        magnitude == DigitsValue(whole \o fraction)
    IN IF whole = <<>> /\ fraction = <<>> THEN NaN
       ELSE [nan |-> FALSE, n |-> IF negative THEN -magnitude ELSE magnitude,
             d |-> PowerOfTen(Len(fraction))]

\* the threshold inputs: whole percents in several spellings, and strings
\* that are no number
ThresholdInputs ==
    {<<"1", "0">>, <<"5">>, <<"0">>, <<"-", "5">>, <<"+", "5">>, <<" ", "7">>, <<"5", "%">>,
     <<"5", ".", "0">>, <<"5", ".">>, <<"1", "0", ",", "5">>,
     <<>>, <<" ">>, <<"a", "b", "c">>, <<"-">>, <<".">>, <<"%", "5">>}

\* the contracts of the Action's repository, and the file the report goes to
ActionContracts == {<<"B">>, <<"b">>}
outputMarkdownPath == <<"b", "e", "n", "c", "h", "m", "a", "r", "k", "_", "d", "i", "f", "f", ".", "m", "d">>

InitAction ==
    /\ pc = "action_call"
    /\ threshold = 0
    /\ IdleEmoji
    /\ IdleTable
    /\ IdleDiff
    /\ IdleExtract
    /\ IdleProfiler
    /\ IdleCli
    /\ thresholdInput \in ThresholdInputs
    /\ parsedThreshold = NaN
    /\ execOutcome \in {"exit_0", "exit_1", "rejects"}
    /\ writeOutcome \in {"ok", "throws"}
    /\ actionLog = <<>>
    /\ outputs = <<>>
    /\ reportFile = <<>>
    /\ dirState = "ok"
    /\ \E withBase \in SUBSET ActionContracts :
        dirFiles = [file \in {BaseFileOf(name) : name \in withBase} |-> ReportA]
    /\ benchmarkPairs = <<>>
    /\ markdownOutput = <<>>
    /\ pairIndex = 0
    /\ returned = <<>>

\* core.setFailed in the catch of lines 74-79
SetFailed == Append(actionLog, "setFailed")

ActionReadInputsNoCheck ==
    /\ pc = "action_call"
    /\ parsedThreshold' = parseFloat(thresholdInput)
    /\ pc' = "action_exec"
    /\ UNCHANGED <<engineVars, diffVars, extractVars, profilerVars, cliVars, thresholdInput, execOutcome,
                   writeOutcome, actionLog, outputs, reportFile>>

\* lines 20-38: the inputs are read and logged; a threshold that is NaN
\* throws, which the catch turns into setFailed
ActionReadInputs ==
    /\ pc = "action_call"
    /\ parsedThreshold' = parseFloat(thresholdInput)
    /\ IF parseFloat(thresholdInput).nan
       THEN actionLog' = SetFailed /\ pc' = "action_failed"
       ELSE actionLog' = actionLog /\ pc' = "action_exec"
    /\ UNCHANGED <<engineVars, diffVars, extractVars, profilerVars, cliVars, thresholdInput, execOutcome,
                   writeOutcome, outputs, reportFile>>

\* the reports directory after the benchmark CLI wrote the latest reports
AfterCli(latest) ==
    [file \in DOMAIN dirFiles \cup {PrFileOf(name) : name \in DOMAIN latest} |->
        IF \E name \in DOMAIN latest : file = PrFileOf(name)
        THEN latest[CHOOSE name \in DOMAIN latest : file = PrFileOf(name)]
        ELSE dirFiles[file]]

\* lines 40-62: the benchmark CLI is executed; when it exits with 0 the
\* comparison is called with the parsed threshold, otherwise (a rejected
\* exec, another exit code) the catch calls setFailed
ActionExec ==
    /\ pc = "action_exec"
    /\ IF execOutcome = "exit_0"
       THEN /\ actionLog' = Append(actionLog, "exec")
            /\ threshold' = parsedThreshold.n \div parsedThreshold.d
            /\ \E written \in SUBSET ActionContracts :
                \E latest \in [written -> PrContents] : dirFiles' = AfterCli(latest)
            /\ pc' = "run_call"
       ELSE /\ actionLog' = Append(Append(actionLog, "exec"), "setFailed")
            /\ pc' = "action_failed"
            /\ UNCHANGED <<threshold, dirFiles>>
    /\ UNCHANGED <<emojiVars, tableVars, dirState, benchmarkPairs, markdownOutput,
                   pairIndex, returned, diffVars, extractVars, profilerVars, cliVars, thresholdInput,
                   parsedThreshold, execOutcome, writeOutcome, outputs, reportFile>>

\* line 62 and the catch: an exception of runComparison ends in setFailed
ActionComparisonThrew ==
    /\ pc = "run_threw"
    /\ actionLog' = SetFailed
    /\ pc' = "action_failed"
    /\ UNCHANGED <<engineVars, diffVars, extractVars, profilerVars, cliVars, thresholdInput, parsedThreshold,
                   execOutcome, writeOutcome, outputs, reportFile>>

\* lines 65-67: the returned document is written to the output path; an
\* error of writeFileSync ends in setFailed
ActionWrite ==
    /\ pc = "run_done"
    /\ IF writeOutcome = "ok"
       THEN /\ reportFile' = returned[Len(returned)]
            /\ actionLog' = Append(actionLog, "writeFileSync")
            /\ pc' = "action_written"
       ELSE /\ reportFile' = reportFile
            /\ actionLog' = SetFailed
            /\ pc' = "action_failed"
    /\ UNCHANGED <<engineVars, diffVars, extractVars, profilerVars, cliVars, thresholdInput, parsedThreshold,
                   execOutcome, writeOutcome, outputs>>

\* line 69
ActionSetMarkdownOutput ==
    /\ pc = "action_written"
    /\ outputs' = Append(outputs, <<"comparison_markdown", returned[Len(returned)]>>)
    /\ actionLog' = Append(actionLog, "setOutput")
    /\ pc' = "action_output"
    /\ UNCHANGED <<engineVars, diffVars, extractVars, profilerVars, cliVars, thresholdInput, parsedThreshold,
                   execOutcome, writeOutcome, reportFile>>

\* lines 70-72
ActionSetPathOutput ==
    /\ pc = "action_output"
    /\ outputs' = Append(outputs, <<"markdown_file_path", outputMarkdownPath>>)
    /\ actionLog' = Append(actionLog, "setOutput")
    /\ pc' = "action_done"
    /\ UNCHANGED <<engineVars, diffVars, extractVars, profilerVars, cliVars, thresholdInput, parsedThreshold,
                   execOutcome, writeOutcome, reportFile>>

NextAction ==
    \/ ActionReadInputs \/ ActionExec
    \/ RunStart \/ ProcessPair \/ ProcessPairThrows \/ RunReturn
    \/ ActionComparisonThrew \/ ActionWrite
    \/ ActionSetMarkdownOutput \/ ActionSetPathOutput

SpecAction == InitAction /\ [][NextAction]_vars

-----------------------------------------------------------------------------
(* Claims about the GitHub Action, checked under SpecAction *)

Logged(event) == \E i \in 1..Len(actionLog) : actionLog[i] = event

\* the inputs that are no number
NonNumericInputs == {<<>>, <<" ">>, <<"a", "b", "c">>, <<"-">>, <<".">>, <<"%", "5">>}

\* C17: the report file is written and the two outputs are set only after
\* the threshold was parsed as a number, the benchmark CLI exited with 0 and
\* the comparison returned, the file before the outputs; a threshold that is
\* no number fails the run before the CLI is executed; a failed run has no
\* output set.
C17_OutputsOnlyAfterSuccess ==
    /\ (reportFile # <<>> \/ outputs # <<>>) =>
        /\ thresholdInput \notin NonNumericInputs
        /\ ~parsedThreshold.nan
        /\ Logged("exec") /\ execOutcome = "exit_0"
        /\ Len(returned) = 1 /\ pc \notin {"run_call", "run_loop", "run_threw"}
        /\ reportFile = returned[1]
    /\ outputs # <<>> =>
        /\ Logged("writeFileSync")
        /\ \A i \in 1..Len(actionLog) : \A j \in 1..Len(actionLog) :
            (actionLog[i] = "writeFileSync" /\ actionLog[j] = "setOutput") => i < j
        /\ outputs[1] = <<"comparison_markdown", reportFile>>
    /\ (thresholdInput \in NonNumericInputs /\ pc # "action_call") =>
        pc = "action_failed" /\ Logged("setFailed") /\ ~Logged("exec")
    /\ Logged("setFailed") <=> pc = "action_failed"
    /\ pc = "action_failed" => outputs = <<>>
    /\ pc = "action_done" =>
        outputs = <<<<"comparison_markdown", reportFile>>, <<"markdown_file_path", outputMarkdownPath>>>>

C17_Witness ==
    /\ pc = "action_done"
    /\ thresholdInput = <<"5", "%">>
    /\ threshold = 5
    /\ actionLog = <<"exec", "writeFileSync", "setOutput", "setOutput">>
    /\ Len(HeadingNames(reportFile)) = 2

C17_FailedComparison ==
    /\ pc = "action_failed"
    /\ actionLog = <<"exec", "setFailed">>
    /\ execOutcome = "exit_0"

-----------------------------------------------------------------------------
(* Profiler.profile (profiler.ts) *)

UnknownFunction == UnknownFunctionPrefix
FailedSuffix == <<" ">> \o FailedMarker

\* the names an interaction can give: of its first call, the selector of its
\* first call as a string, and its methodName
CallName == <<"f">>
SelectorString == <<"0", "x", "1">>
MethodName == <<"m">>

\* what the steps of an interaction come to.  request: the first call of the
\* payload has a name ("name"), only a selector ("selector"), neither
\* ("neither"), the payload has no calls ("no_calls"), or the request throws
\* ("throws"); failure: the call of the second try block that throws, if any
Interaction(request, hasMethodName, failure) ==
    [request |-> request, hasMethodName |-> hasMethodName, failure |-> failure]

Interactions ==
    {Interaction(request, FALSE, failure) :
        request \in {"name", "selector", "neither", "no_calls", "throws"},
        failure \in {"none", "estimateGas", "profile", "send"}}
    \cup {Interaction("throws", TRUE, failure) :
        failure \in {"none", "estimateGas", "profile", "send"}}

\* what f.estimateGas() and f.profile() return when they do not throw
EstimatedGas == Gas(Num(10), Num(20))
ExecutionSteps ==
    <<[functionName |-> "c1", gateCount |-> Num(MaxMetric)],
      [functionName |-> "c2", gateCount |-> Undefined],
      [functionName |-> "c3", gateCount |-> Num(1)]>>

\* a ProfileResult
ProfileResult(name, totalGateCount, gateCounts, gas) ==
    [name |-> name, totalGateCount |-> totalGateCount, gateCounts |-> gateCounts, gas |-> gas]

RECURSIVE sumArray(_)
sumArray(arr) == IF arr = <<>> THEN 0 ELSE Head(arr) + sumArray(Tail(arr))

\* lines 105-122: the name of the interaction
nameOf(f) ==
    CASE f.request = "name" -> CallName
      [] f.request = "selector" -> SelectorString
      [] f.request = "throws" /\ f.hasMethodName -> MethodName
      [] OTHER -> UnknownFunction

\* lines 131-143: the result of an interaction that did not fail
profiledResult(f) ==
    LET counted == SelectSeq(ExecutionSteps, LAMBDA step : step.gateCount.t = "number")
    IN ProfileResult(nameOf(f),
            sumArray([i \in 1..Len(counted) |-> counted[i].gateCount.n]),
            [i \in 1..Len(ExecutionSteps) |->
                [circuitName |-> ExecutionSteps[i].functionName,
                 gateCount |-> OrZero(ExecutionSteps[i].gateCount)]],
            EstimatedGas)

\* lines 151-156: the result of an interaction that failed
failedResult(f) ==
    ProfileResult(nameOf(f) \o FailedSuffix, 0, <<>>, Gas(Num(0), Num(0)))

profileOneNoCatch(f) ==
    IF f.failure = "none"
    THEN [threw |-> FALSE, result |-> profiledResult(f)]
    ELSE [threw |-> TRUE, result |-> failedResult(f)]

\* #profileOne: both try blocks catch what the interaction throws
profileOne(f) ==
    IF f.failure = "none"
    THEN [threw |-> FALSE, result |-> profiledResult(f)]
    ELSE [threw |-> FALSE, result |-> failedResult(f)]

InitProfiler ==
    /\ pc = "profile_loop"
    /\ IdleEngine
    /\ IdleDiff
    /\ IdleExtract
    /\ IdleAction
    /\ IdleCli
    /\ \E n \in 0..MaxInteractions : fsToProfile \in [1..n -> Interactions]
    /\ profiled = <<>>
    /\ profileIndex = 1

\* lines 42-44: one pass of the loop; an exception of #profileOne would
\* reject the promise of profile
ProfileNext ==
    /\ pc = "profile_loop"
    /\ profileIndex <= Len(fsToProfile)
    /\ IF profileOne(fsToProfile[profileIndex]).threw
       THEN pc' = "profile_rejected" /\ UNCHANGED <<profiled, profileIndex>>
       ELSE /\ profiled' = Append(profiled, profileOne(fsToProfile[profileIndex]).result)
            /\ profileIndex' = profileIndex + 1
            /\ pc' = pc
    /\ UNCHANGED <<engineVars, diffVars, extractVars, actionVars, cliVars, fsToProfile>>

\* line 45
ProfileReturn ==
    /\ pc = "profile_loop"
    /\ profileIndex > Len(fsToProfile)
    /\ pc' = "profile_resolved"
    /\ UNCHANGED <<engineVars, diffVars, extractVars, actionVars, cliVars, profilerVars>>

NextProfiler == ProfileNext \/ ProfileReturn

SpecProfiler == InitProfiler /\ [][NextProfiler]_vars

-----------------------------------------------------------------------------
(* Claims about Profiler.profile, checked under SpecProfiler *)

\* the names an interaction may be reported under
PossibleNames == {<<"f">>, <<"0", "x", "1">>, <<"m">>, UnknownFunctionPrefix}

\* the name an interaction is to be reported under
ReportedName(f) ==
    IF f.request = "name" THEN <<"f">>
    ELSE IF f.request = "selector" THEN <<"0", "x", "1">>
    ELSE IF f.request = "throws" /\ f.hasMethodName THEN <<"m">>
    ELSE UnknownFunctionPrefix

\* C18: profile returns one result for each interaction, in input order, and
\* never rejects; the result of an interaction whose gas estimation,
\* profiling or sending throws has (FAILED) in its name, totalGateCount 0,
\* no gateCounts and zero daGas and l2Gas, and the interactions after it are
\* profiled all the same.
C18_OneResultPerInteraction ==
    /\ pc # "profile_rejected"
    /\ Len(profiled) = profileIndex - 1
    /\ pc = "profile_resolved" => Len(profiled) = Len(fsToProfile)
    /\ \A i \in 1..Len(profiled) :
        /\ StartsWith(profiled[i].name, ReportedName(fsToProfile[i]))
        /\ IF fsToProfile[i].failure # "none"
           THEN /\ Includes(profiled[i].name, FailedMarker)
                /\ profiled[i].totalGateCount = 0
                /\ profiled[i].gateCounts = <<>>
                /\ profiled[i].gas.gasLimits.daGas = Num(0)
                /\ profiled[i].gas.gasLimits.l2Gas = Num(0)
           ELSE /\ profiled[i].name \in PossibleNames
                /\ profiled[i].totalGateCount = MaxMetric + 1
                /\ Len(profiled[i].gateCounts) = 3

C18_Witness ==
    /\ pc = "profile_resolved"
    /\ Len(fsToProfile) = 2
    /\ fsToProfile[1].failure = "send"
    /\ fsToProfile[2].failure = "none"
    /\ profiled[1].name = <<"f", " ", "(", "F", "A", "I", "L", "E", "D", ")">>
    /\ profiled[2].name = <<"m">>
    /\ profiled[2].totalGateCount = MaxMetric + 1

-----------------------------------------------------------------------------
(* The CLI: the loop over the contracts to run (index.cjs, lines 152-198) *)

\* the benchmark of a contract.  fileExists: the benchmark file is there;
\* validClass: it exports a class with getMethods; setup and teardown: the
\* method is not defined ("none"), returns ("ok") or throws ("throws");
\* methods: getMethods returns interactions ("some"), an empty array
\* ("empty"), no array ("not_array") or throws ("throws"); save: writing the
\* report succeeds ("ok") or throws ("throws")
Benchmark(fileExists, validClass, setup, methods, save, teardown) ==
    [fileExists |-> fileExists, validClass |-> validClass, setup |-> setup,
     methods |-> methods, save |-> save, teardown |-> teardown]

Benchmarks ==
    {Benchmark(FALSE, TRUE, "ok", "some", "ok", "ok"),
     Benchmark(TRUE, FALSE, "ok", "some", "ok", "ok"),
     Benchmark(TRUE, TRUE, "ok", "some", "ok", "throws")}
    \cup {Benchmark(TRUE, TRUE, setup, methods, "ok", teardown) :
            setup \in {"none", "ok", "throws"},
            methods \in {"some", "empty", "not_array", "throws"},
            teardown \in {"none", "ok"}}
    \cup {Benchmark(TRUE, TRUE, setup, "some", "throws", teardown) :
            setup \in {"none", "ok", "throws"}, teardown \in {"none", "ok"}}

\* contractName of the i-th contract, and outputJsonPath for it (lines
\* 155-156, with the suffix the Action passes)
CliContractName(i) == <<"C">> \o Digits(i)
outputFilename(i) == CliContractName(i) \o prSuffix \o BenchmarkJson

\* runContext: {} at first, then what setup returned for the contract
EmptyContext == "empty"
ContextOf(i) == <<"context", i>>

\* the interactions getMethods returns when it returns some
MethodsToBenchmark == <<Interaction("name", FALSE, "none"), Interaction("name", FALSE, "send")>>

\* Profiler.profile, as a whole
profile(fs) == [i \in 1..Len(fs) |-> profileOne(fs[i]).result]

\* the report saveResults writes (lines 57-60 and 82-90)
SavedReport(results) == [results |-> results]

\* a call of the log
Call(i, call, argument) == <<i, call, argument>>

InitCli ==
    /\ pc = "cli_begin"
    /\ IdleEngine
    /\ IdleDiff
    /\ IdleExtract
    /\ IdleAction
    /\ IdleProfiler
    /\ \E n \in 1..MaxContracts : contractsToRun \in [1..n -> Benchmarks]
    /\ contractIndex = 1
    /\ runContext = EmptyContext
    /\ cliLog = <<>>
    /\ outputDir = [file \in {} |-> SavedReport(<<>>)]

CurrentBenchmark == contractsToRun[contractIndex]

\* lines 152-172: the benchmark file is looked up and imported; without the
\* file or the class the loop continues with the next contract
CliBegin ==
    /\ pc = "cli_begin"
    /\ contractIndex <= Len(contractsToRun)
    /\ IF CurrentBenchmark.fileExists /\ CurrentBenchmark.validClass
       THEN pc' = "cli_setup" /\ contractIndex' = contractIndex
       ELSE pc' = "cli_begin" /\ contractIndex' = contractIndex + 1
    /\ runContext' = EmptyContext
    /\ UNCHANGED <<engineVars, diffVars, extractVars, actionVars, profilerVars,
                   contractsToRun, cliLog, outputDir>>

\* lines 173-177: setup, when defined; what it throws is caught at line 195
CliSetup ==
    /\ pc = "cli_setup"
    /\ CASE CurrentBenchmark.setup = "none" ->
                /\ pc' = "cli_methods"
                /\ UNCHANGED <<runContext, cliLog, contractIndex>>
         [] CurrentBenchmark.setup = "ok" ->
                /\ pc' = "cli_methods"
                /\ runContext' = ContextOf(contractIndex)
                /\ cliLog' = Append(cliLog, Call(contractIndex, "setup", EmptyContext))
                /\ UNCHANGED contractIndex
         [] OTHER ->
                /\ pc' = "cli_begin"
                /\ contractIndex' = contractIndex + 1
                /\ cliLog' = Append(cliLog, Call(contractIndex, "setup throws", EmptyContext))
                /\ UNCHANGED runContext
    /\ UNCHANGED <<engineVars, diffVars, extractVars, actionVars, profilerVars,
                   contractsToRun, outputDir>>

\* lines 178-187: getMethods; without methods there is only a warning, with
\* methods they are profiled and the results saved; what getMethods or
\* saveResults throws is caught at line 195, after which the loop continues
\* with the next contract
CliGetMethods ==
    /\ pc = "cli_methods"
    /\ CASE CurrentBenchmark.methods \in {"empty", "not_array"} ->
                /\ pc' = "cli_teardown"
                /\ cliLog' = Append(cliLog, Call(contractIndex, "getMethods", runContext))
                /\ UNCHANGED <<contractIndex, outputDir>>
         [] CurrentBenchmark.methods = "throws" ->
                /\ pc' = "cli_begin"
                /\ contractIndex' = contractIndex + 1
                /\ cliLog' = Append(cliLog, Call(contractIndex, "getMethods throws", runContext))
                /\ UNCHANGED outputDir
         [] CurrentBenchmark.methods = "some" /\ CurrentBenchmark.save = "ok" ->
                /\ pc' = "cli_teardown"
                /\ cliLog' = cliLog \o <<Call(contractIndex, "getMethods", runContext),
                                          Call(contractIndex, "saveResults", outputFilename(contractIndex))>>
                /\ outputDir' =
                    [file \in DOMAIN outputDir \cup {outputFilename(contractIndex)} |->
                        IF file = outputFilename(contractIndex)
                        THEN SavedReport(profile(MethodsToBenchmark))
                        ELSE outputDir[file]]
                /\ UNCHANGED contractIndex
         [] OTHER ->
                /\ pc' = "cli_begin"
                /\ contractIndex' = contractIndex + 1
                /\ cliLog' = cliLog \o <<Call(contractIndex, "getMethods", runContext),
                                          Call(contractIndex, "saveResults throws", outputFilename(contractIndex))>>
                /\ UNCHANGED outputDir
    /\ UNCHANGED <<engineVars, diffVars, extractVars, actionVars, profilerVars,
                   contractsToRun, runContext>>

\* lines 188-193: teardown, when defined, with the context of setup; then
\* the next contract
CliTeardown ==
    /\ pc = "cli_teardown"
    /\ cliLog' =
        IF CurrentBenchmark.teardown = "none" THEN cliLog
        ELSE Append(cliLog, Call(contractIndex, "teardown", runContext))
    /\ pc' = "cli_begin"
    /\ contractIndex' = contractIndex + 1
    /\ UNCHANGED <<engineVars, diffVars, extractVars, actionVars, profilerVars,
                   contractsToRun, runContext, outputDir>>

\* line 199
CliEnd ==
    /\ pc = "cli_begin"
    /\ contractIndex > Len(contractsToRun)
    /\ pc' = "cli_done"
    /\ UNCHANGED <<engineVars, diffVars, extractVars, actionVars, profilerVars, cliVars>>

NextCli == CliBegin \/ CliSetup \/ CliGetMethods \/ CliTeardown \/ CliEnd

SpecCli == InitCli /\ [][NextCli]_vars

-----------------------------------------------------------------------------
(* Claims about the CLI, checked under SpecCli *)

CliLogged(i, call) == \E k \in 1..Len(cliLog) : cliLog[k][1] = i /\ cliLog[k][2] = call

\* the contracts the loop has moved on from
PassedContracts == {i \in 1..Len(contractsToRun) : i < contractIndex}

\* C19: when getMethods of a contract returns no benchmark methods (an empty
\* array or no array), the CLI saves an empty report for that contract, so
\* that after the run the report file exists with results [].
C19_EmptyReportSaved ==
    \A i \in PassedContracts :
        (CliLogged(i, "getMethods") /\ contractsToRun[i].methods \in {"empty", "not_array"}) =>
            /\ outputFilename(i) \in DOMAIN outputDir
            /\ outputDir[outputFilename(i)].results = <<>>

\* with methods, and a write that succeeds, the report of the contract is
\* saved with one result for each method
C19_ReportSavedWithMethods ==
    \A i \in PassedContracts :
        (CliLogged(i, "getMethods") /\ contractsToRun[i].methods = "some"
            /\ contractsToRun[i].save = "ok") =>
            /\ outputFilename(i) \in DOMAIN outputDir
            /\ Len(outputDir[outputFilename(i)].results) = 2

C19_SavedExample ==
    /\ pc = "cli_done"
    /\ Len(contractsToRun) = 2
    /\ contractsToRun[1].methods = "empty"
    /\ DOMAIN outputDir = {outputFilename(2)}

\* the contracts whose setup has completed and whose instance defines teardown
NeedTeardown(i) ==
    /\ contractsToRun[i].fileExists /\ contractsToRun[i].validClass
    /\ contractsToRun[i].setup = "ok"
    /\ contractsToRun[i].teardown # "none"

TeardownCalled(i) ==
    \E k \in 1..Len(cliLog) : cliLog[k] = <<i, "teardown", <<"context", i>>>>

\* C20: whenever the setup of a benchmark instance has completed and the
\* instance defines teardown, teardown is called with the context of setup
\* before the loop moves on to the next contract, also when getMethods,
\* profiling or saving the results throws.
C20_TeardownAfterSetup ==
    \A i \in PassedContracts : NeedTeardown(i) => TeardownCalled(i)

\* the same for contracts of which neither getMethods nor saveResults throws
C20_WhenNothingThrows ==
    \A i \in PassedContracts :
        (NeedTeardown(i) /\ contractsToRun[i].methods # "throws"
            /\ ~(contractsToRun[i].methods = "some" /\ contractsToRun[i].save = "throws")) =>
            TeardownCalled(i)

C20_TeardownExample ==
    /\ pc = "cli_done"
    /\ Len(contractsToRun) = 2
    /\ NeedTeardown(1) /\ NeedTeardown(2)
    /\ TeardownCalled(1) /\ TeardownCalled(2)

-----------------------------------------------------------------------------
(* Claims about the threshold the Action hands to the comparison, checked
   under SpecAction *)

\* the rows of the tables of a document
ReportRows(document) ==
    UNION {{document[i].table.rows[k] : k \in 1..Len(document[i].table.rows)} :
            i \in {j \in 1..Len(document) : document[j].kind = "table"}}

\* a row whose gates, DA gas and L2 gas are the same in both reports
IdenticalRow(row) ==
    /\ row.gates.main = row.gates.pr
    /\ row.daGas.main = row.daGas.pr
    /\ row.l2Gas.main = row.l2Gas.pr

\* C21: for every threshold the Action accepts (every value that is not
\* NaN, 0 and negative numbers included), a function whose gates, daGas and
\* l2Gas are the same in the base report and in the candidate report is
\* classified as unchanged, never as a regression or an improvement.
C21_IdenticalUnchanged ==
    \A row \in ReportRows(reportFile) :
        IdenticalRow(row) => row.statusEmoji = EmojiUnchanged

\* the same for the thresholds that are not negative
C21_WhenThresholdNotNegative ==
    threshold >= 0 =>
        \A row \in ReportRows(reportFile) :
            IdenticalRow(row) => row.statusEmoji = EmojiUnchanged

C21_ZeroThresholdExample ==
    /\ pc = "action_done"
    /\ thresholdInput = <<"0">>
    /\ \E row \in ReportRows(reportFile) :
        IdenticalRow(row) /\ row.statusEmoji = EmojiUnchanged

C21_NegativeThresholdExample ==
    /\ pc = "action_done"
    /\ thresholdInput = <<"-", "5">>
    /\ threshold = -5
    /\ \E row \in ReportRows(reportFile) :
        IdenticalRow(row) /\ row.statusEmoji = EmojiRegression

-----------------------------------------------------------------------------
(* Claims about the diff cells and the status of one row, checked under
   SpecEmoji: the row of the metrics has the status getStatusEmoji gives and
   the three diff cells formatDiff gives for the same metrics *)

\* the diff cells of the row pushed for the classified metrics
DiffCells ==
    {Cells(metrics.gates).diff, Cells(metrics.daGas).diff, Cells(metrics.l2Gas).diff}

\* C22: in every rendered row with non-negative metrics the diffs shown and
\* the status agree: a row in which the diff cell of some metric is +Inf% has
\* the status new or regression (never unchanged, improvement or removed),
\* and a row with the status removed shows -100% or an empty diff in each of
\* its three diff cells.
C22_DiffsAgreeWithStatus ==
    pc = "emoji_done" =>
        /\ InfText \in DiffCells => statusEmoji \in {EmojiNew, EmojiRegression}
        /\ statusEmoji = EmojiRemoved => DiffCells \subseteq {Minus100Text, <<>>}

\* an infinite increase of DA gas next to an improvement of the gates
C22_Witness ==
    /\ pc = "emoji_done"
    /\ metrics.gates = [main |-> 2, pr |-> 1]
    /\ metrics.daGas = [main |-> 0, pr |-> 1]
    /\ threshold = 0
    /\ InfText \in DiffCells
    /\ statusEmoji = EmojiRegression

C22_RemovedExample ==
    /\ pc = "emoji_done"
    /\ statusEmoji = EmojiRemoved
    /\ DiffCells = {Minus100Text, <<>>}

C22_NewExample ==
    /\ pc = "emoji_done"
    /\ statusEmoji = EmojiNew
    /\ DiffCells = {InfText, <<>>}

=============================================================================
